---- MODULE Spec2Model ----
(***************************************************************************)
(* pyEX technical-indicator overlays (pyEX/studies/technicals/overlap.py). *)
(*                                                                         *)
(* Every indicator function fetches a chart with client.chartDF, selects   *)
(* its input column(s), calls a TA-Lib primitive (once, or once per        *)
(* requested period) and assembles a pandas DataFrame from a dict.  One    *)
(* call is modelled statement by statement: `pc` is the position in the    *)
(* called function's statement list, and the locals of the Python function *)
(* (periods, df, build, the loop position, the primitive's return value)   *)
(* are variables.  Exceptions end the call with status "raised".           *)
(*                                                                         *)
(* TA-Lib and pandas are external: a primitive is an uninterpreted,        *)
(* deterministic, length-preserving function of its input arrays and its   *)
(* period; a cell of its output records which primitive produced it.       *)
(***************************************************************************)
EXTENDS Integers, Sequences, FiniteSets, TLC

VARIABLES
    source,     \* what client.chartDF returns when it succeeds: column name -> array
    status,     \* "idle" | "running" | "returned" | "raised"
    fn,         \* the indicator function being called
    args,       \* its arguments: col, highcol, lowcol, periods, period
    pc,         \* index of the next statement in Program(fn)
    periods,    \* local `periods`
    df,         \* local `df`
    build,      \* local `build` (a dict, in insertion order)
    out,        \* local `bb` / `sar`: the primitive's return value
    idx,        \* position of `for per in periods`
    fetches,    \* number of client.chartDF calls made by this call
    primCalls,  \* the primitive invocations made by this call, in order
    result,     \* the returned DataFrame
    err,        \* the exception raised, or "none"
    prev        \* outcome of the preceding call, when this call repeats it

vars == <<source, status, fn, args, pc, periods, df, build, out, idx,
          fetches, primCalls, result, err, prev>>

-----------------------------------------------------------------------------
(* Bounds of the model *)

MaxRows == 2
MaxLen == 3

(* Program constant: `periods = [30]` *)

DefaultPeriod == 30

PeriodValues == {1, 10, DefaultPeriod}

-----------------------------------------------------------------------------
(* Values *)

\* A `periods` argument: None, a bare scalar, or a list.
Unset == [kind |-> "unset", val |-> 0, vals |-> <<>>]
Scalar(p) == [kind |-> "scalar", val |-> p, vals |-> <<>>]
List(s) == [kind |-> "list", val |-> 0, vals |-> s]

SeqsUpTo(S, n) == UNION {[1..k -> S] : k \in 0..n}

PeriodArgs ==
    {Unset} \cup {Scalar(p) : p \in PeriodValues}
            \cup {List(s) : s \in SeqsUpTo(PeriodValues, MaxLen)}

\* One cell of a column: who produced it, from which column(s), with which
\* period, at which row, and its dtype.
RawCell(c, i) == [by |-> "chart", k |-> 0, of |-> c, per |-> 0, row |-> i, ty |-> "raw"]

NoFrame == <<>>
NoTable == <<>>

-----------------------------------------------------------------------------
(* The indicator functions of overlap.py *)

PeriodListFns == {"dema", "ema", "mavp", "sma", "t3", "tema", "trima", "wma"}
PeriodFns == {"bollinger", "kama", "midpoint", "midpice"}
PlainFns == {"ht_trendline", "mama"}
DirectionalFns == {"sar", "sarext"}
LiteralFns == {"bollinger", "sar", "sarext"}

Indicators == PeriodListFns \cup PeriodFns \cup PlainFns \cup DirectionalFns

\* The talib function each indicator function calls.
Primitive(f) ==
    CASE f = "bollinger" -> "BBANDS"
      [] f = "dema" -> "DEMA"
      [] f = "ema" -> "EMA"
      [] f = "ht_trendline" -> "HT_TRENDLINE"
      [] f = "kama" -> "KAMA"
      [] f = "mama" -> "MAMA"
      [] f = "mavp" -> "MAVP"
      [] f = "midpoint" -> "MIDPOINT"
      [] f = "midpice" -> "MIDPRICE"
      [] f = "sar" -> "SAR"
      [] f = "sarext" -> "SAREXT"
      [] f = "sma" -> "EMA"
      [] f = "t3" -> "T3"
      [] f = "tema" -> "TEMA"
      [] f = "trima" -> "TRIMA"
      [] f = "wma" -> "WMA"

\* "{}-{}".format(prefix, x)
Format(prefix, x) == prefix \o "-" \o x

\* The key a period-list indicator stores the column of period `per` under.
ColumnName(f, per) ==
    CASE f = "dema" -> Format("ema", ToString(per))
      [] f = "ema" -> Format("ema", ToString(per))
      [] f = "mavp" -> Format("mavp", ToString(per))
      [] f = "sma" -> Format("sma", ToString(per))
      [] f = "t3" -> Format("t3", ToString(per))
      [] f = "tema" -> Format("sma", ToString(per))
      [] f = "trima" -> Format("trima", ToString(per))
      [] f = "wma" -> Format("wma", ToString(per))

\* The keys a single-invocation indicator stores its outputs under.
OutputNames(f, a) ==
    CASE f = "bollinger" -> <<"upper", "middle", "lower">>
      [] f = "ht_trendline" -> <<Format("ht", a.col)>>
      [] f = "kama" -> <<Format("kama", a.col)>>
      [] f = "mama" -> <<Format("mama", a.col), Format("fama", a.col)>>
      [] f = "midpoint" -> <<Format("kama", a.col)>>
      [] f = "midpice" -> <<Format("kama", a.col)>>
      [] f \in DirectionalFns -> <<"sar">>

InputColsHighTwice(f, a) ==
    IF f \in DirectionalFns THEN <<a.highcol, a.highcol>> ELSE <<a.col>>

\* The columns of df a function reads.
InputCols(f, a) ==
    IF f \in DirectionalFns THEN <<a.highcol, a.lowcol>> ELSE <<a.col>>

\* The period handed to the primitive by a single-invocation indicator
\* (0: the primitive takes no period).
PeriodOf(f, a) == IF f \in PeriodFns THEN a.period ELSE 0

\* The statements of each function, in order.
Program(f) ==
    CASE f = "mavp" -> <<"fetch", "norm", "fetch", "select", "loop", "frame">>
      [] f \in PeriodListFns \ {"mavp"} -> <<"norm", "fetch", "select", "loop", "frame">>
      [] f \in LiteralFns -> <<"fetch", "compute", "frame">>
      [] OTHER -> <<"fetch", "select", "compute", "frame">>

-----------------------------------------------------------------------------
(* pyEX.studies.utils.tolist, the normalisation of `periods`, dicts *)

\* tolist(val): a list is returned as it is, anything else is wrapped.
tolist(v) == IF v.kind = "list" THEN v ELSE List(<<v.val>>)

NormalizeNoTolist(p) == IF p.kind = "unset" THEN List(<<DefaultPeriod>>) ELSE p

NormalizeFalsy(p) ==
    IF p.kind = "unset" \/ (p.kind = "list" /\ p.vals = <<>>)
    THEN List(<<DefaultPeriod>>)
    ELSE tolist(p)

\* if periods is None: periods = [30]
\* periods = tolist(periods)
NormalizePeriods(p) ==
    tolist(IF p.kind = "unset" THEN List(<<DefaultPeriod>>) ELSE p)

\* `for per in periods` needs an iterable.
Iterable(p) == p.kind = "list"

DictAppend(d, key, v) == Append(d, [name |-> key, vals |-> v])

\* d[key] = v on a Python dict: a present key keeps its position and takes
\* the new value, a new key goes last.
DictSet(d, key, v) ==
    IF \E i \in 1..Len(d) : d[i].name = key
    THEN [i \in 1..Len(d) |->
            IF d[i].name = key THEN [name |-> key, vals |-> v] ELSE d[i]]
    ELSE Append(d, [name |-> key, vals |-> v])

RECURSIVE BindAll(_, _, _)
\* d[keys[1]] = vs[1]; d[keys[2]] = vs[2]; ...  (a dict literal, or a tuple
\* assignment, stores left to right)
BindAll(d, keys, vs) ==
    IF keys = <<>> THEN d
    ELSE BindAll(DictSet(d, Head(keys), Head(vs)), Tail(keys), Tail(vs))

\* pd.DataFrame(dict): one column per key, in the dict's order.
DataFrame(d) == d

ColumnNames(t) == [i \in 1..Len(t) |-> t[i].name]

-----------------------------------------------------------------------------
(* df[col], .values.astype(float), the talib primitives *)

HasColumn(d, c) == c \in DOMAIN d

\* .astype(float)
AsFloat(arr) == [i \in 1..Len(arr) |-> [arr[i] EXCEPT !.ty = "float"]]

PrimInputTail(d, c) == Tail(AsFloat(d[c]))

\* df[col].values.astype(float)
PrimInput(d, c) == AsFloat(d[c])

\* Number of arrays a primitive returns.
NumOutputs(prim) ==
    CASE prim = "BBANDS" -> 3
      [] prim = "MAMA" -> 2
      [] OTHER -> 1

TimePeriodPrims ==
    {"BBANDS", "DEMA", "EMA", "KAMA", "MAVP", "MIDPOINT", "MIDPRICE",
     "SMA", "T3", "TEMA", "TRIMA", "WMA"}

\* The primitive raises on a degenerate period.
PrimRejects(prim, per) == prim \in TimePeriodPrims /\ per <= 1

RECURSIVE JoinOf(_, _)
JoinOf(inputs, i) ==
    IF Len(inputs) = 1 THEN inputs[1][i].of
    ELSE inputs[1][i].of \o "," \o JoinOf(Tail(inputs), i)

\* The arrays primitive `prim` returns for `inputs` and period `per`: as many
\* rows as its first input.
TA(prim, inputs, per) ==
    [k \in 1..NumOutputs(prim) |->
        [i \in 1..Len(inputs[1]) |->
            [by |-> prim, k |-> k, of |-> JoinOf(inputs, i), per |-> per,
             row |-> inputs[1][i].row, ty |-> "float"]]]

-----------------------------------------------------------------------------
(* The environment: the chart source and the callers' arguments *)

\* The column sets the chart source may serve.
SeriesShapes ==
    { {"close", "high", "low", "upper", "sar", "ema-30"},
      {"close", "high"},
      {"close", "low"} }

Cols == {"close", "upper", "ema-30"}
HighCols == {"high", "low", "sar"}
LowCols == {"low", "sar"}

BaseArgs == [col |-> "close", highcol |-> "high", lowcol |-> "low",
             periods |-> Unset, period |-> 0]

\* The argument combinations function f is called with.
ArgsOf(f) ==
    CASE f \in PeriodListFns ->
            {[BaseArgs EXCEPT !.col = c, !.periods = p] : c \in Cols, p \in PeriodArgs}
      [] f \in PeriodFns ->
            {[BaseArgs EXCEPT !.col = c, !.period = q] : c \in Cols, q \in PeriodValues}
      [] f \in PlainFns ->
            {[BaseArgs EXCEPT !.col = c] : c \in Cols}
      [] f \in DirectionalFns ->
            {[BaseArgs EXCEPT !.highcol = h, !.lowcol = l] : h \in HighCols, l \in LowCols}

NoCall == [called |-> FALSE, fn |-> "", args |-> BaseArgs, status |-> "idle",
           err |-> "none", result |-> NoTable]

Outcome == [called |-> TRUE, fn |-> fn, args |-> args, status |-> status,
            err |-> err, result |-> result]

Init ==
    /\ \E n \in 1..MaxRows, shape \in SeriesShapes :
          source = [c \in shape |-> [i \in 1..n |-> RawCell(c, i)]]
    /\ status = "idle"
    /\ fn = ""
    /\ args = BaseArgs
    /\ pc = 1
    /\ periods = Unset
    /\ df = NoFrame
    /\ build = <<>>
    /\ out = <<>>
    /\ idx = 1
    /\ fetches = 0
    /\ primCalls = <<>>
    /\ result = NoTable
    /\ err = "none"
    /\ prev = NoCall

-----------------------------------------------------------------------------
(* One call, statement by statement *)

Finished == status \in {"returned", "raised"}

At(stmt) == status = "running" /\ Program(fn)[pc] = stmt

\* Function entry: the parameters are bound, the locals are fresh.
Enter(f, a) ==
    /\ status' = "running"
    /\ fn' = f
    /\ args' = a
    /\ pc' = 1
    /\ periods' = a.periods
    /\ df' = NoFrame
    /\ build' = <<>>
    /\ out' = <<>>
    /\ idx' = 1
    /\ fetches' = 0
    /\ primCalls' = <<>>
    /\ result' = NoTable
    /\ err' = "none"
    /\ UNCHANGED source

\* An exception leaves the function: nothing is returned.
Raise(e) ==
    /\ status' = "raised"
    /\ err' = e
    /\ UNCHANGED <<pc, result>>

\* A caller calls indicator f.
Call ==
    /\ status = "idle"
    /\ \E f \in Indicators : \E a \in ArgsOf(f) : Enter(f, a)
    /\ prev' = NoCall

\* The caller has taken the table or the exception; nothing of the call is
\* retained.
Leave ==
    /\ Finished
    /\ status' = "idle"
    /\ fn' = ""
    /\ args' = BaseArgs
    /\ pc' = 1
    /\ periods' = Unset
    /\ df' = NoFrame
    /\ build' = <<>>
    /\ out' = <<>>
    /\ idx' = 1
    /\ fetches' = 0
    /\ primCalls' = <<>>
    /\ result' = NoTable
    /\ err' = "none"
    /\ prev' = NoCall
    /\ UNCHANGED source

\* A caller that passed a bare scalar, or nothing, for `periods` repeats the
\* call with a one-element list, everything else the same.
CallAgain ==
    /\ Finished
    /\ fn \in PeriodListFns
    /\ args.periods.kind \in {"scalar", "unset"}
    /\ \E q \in PeriodValues : Enter(fn, [args EXCEPT !.periods = List(<<q>>)])
    /\ prev' = Outcome

\* if periods is None: periods = [30]; periods = tolist(periods)
Normalize ==
    /\ At("norm")
    /\ periods' = NormalizePeriods(periods)
    /\ pc' = pc + 1
    /\ UNCHANGED <<source, status, fn, args, df, build, out, idx, fetches,
                   primCalls, result, err, prev>>

\* df = client.chartDF(symbol, range): the chart, or the client's exception.
Fetch ==
    /\ At("fetch")
    /\ fetches' = fetches + 1
    /\ \E ok \in BOOLEAN :
          IF ok
          THEN /\ df' = source
               /\ pc' = pc + 1
               /\ UNCHANGED <<status, err, result>>
          ELSE /\ Raise("DataUnavailable")
               /\ UNCHANGED df
    /\ UNCHANGED <<source, fn, args, periods, build, out, idx, primCalls, prev>>

\* build = {col: df[col].values}
Select ==
    /\ At("select")
    /\ IF HasColumn(df, args.col)
       THEN /\ build' = DictSet(<<>>, args.col, df[args.col])
            /\ pc' = pc + 1
            /\ UNCHANGED <<status, err, result>>
       ELSE /\ Raise("KeyError")
            /\ UNCHANGED build
    /\ UNCHANGED <<source, fn, args, periods, df, out, idx, fetches, primCalls, prev>>

IterateSkipping ==
    /\ At("loop")
    /\ IF ~Iterable(periods)
       THEN /\ Raise("TypeError")
            /\ UNCHANGED <<build, idx, primCalls>>
       ELSE IF idx > Len(periods.vals)
       THEN /\ pc' = pc + 1
            /\ UNCHANGED <<status, err, result, build, idx, primCalls>>
       ELSE LET per == periods.vals[idx]
                prim == Primitive(fn)
            IN  /\ primCalls' = Append(primCalls, [prim |-> prim, per |-> per])
                /\ idx' = idx + 1
                /\ build' = IF PrimRejects(prim, per) THEN build
                            ELSE DictSet(build, ColumnName(fn, per),
                                         TA(prim, <<PrimInput(df, args.col)>>, per)[1])
                /\ UNCHANGED <<status, err, result, pc>>
    /\ UNCHANGED <<source, fn, args, periods, df, out, fetches, prev>>

\* for per in periods: build["<name>-{}".format(per)] = t.<PRIM>(df[col].values.astype(float), per)
\* One firing is one turn of the loop, or its end.
Iterate ==
    /\ At("loop")
    /\ IF ~Iterable(periods)
       THEN /\ Raise("TypeError")
            /\ UNCHANGED <<build, idx, primCalls>>
       ELSE IF idx > Len(periods.vals)
       THEN /\ pc' = pc + 1
            /\ UNCHANGED <<status, err, result, build, idx, primCalls>>
       ELSE LET per == periods.vals[idx]
                prim == Primitive(fn)
            IN  /\ primCalls' = Append(primCalls, [prim |-> prim, per |-> per])
                /\ IF PrimRejects(prim, per)
                   THEN /\ Raise("PrimitiveFailure")
                        /\ UNCHANGED <<build, idx>>
                   ELSE /\ build' = DictSet(build, ColumnName(fn, per),
                                            TA(prim, <<PrimInput(df, args.col)>>, per)[1])
                        /\ idx' = idx + 1
                        /\ UNCHANGED <<status, err, result, pc>>
    /\ UNCHANGED <<source, fn, args, periods, df, out, fetches, prev>>

\* The single primitive invocation of bollinger, ht_trendline, kama, mama,
\* midpoint, midpice, sar and sarext.  The arguments are evaluated first
\* (df[...] raises KeyError), then the primitive runs; bollinger, sar and
\* sarext keep its return value in a local, the others store it in build.
Compute ==
    /\ At("compute")
    /\ LET ins == InputCols(fn, args)
           prim == Primitive(fn)
           per == PeriodOf(fn, args)
       IN  IF \E i \in 1..Len(ins) : ~HasColumn(df, ins[i])
           THEN /\ Raise("KeyError")
                /\ UNCHANGED <<build, out, primCalls>>
           ELSE /\ primCalls' = Append(primCalls, [prim |-> prim, per |-> per])
                /\ IF PrimRejects(prim, per)
                   THEN /\ Raise("PrimitiveFailure")
                        /\ UNCHANGED <<build, out>>
                   ELSE LET res == TA(prim, [i \in 1..Len(ins) |-> PrimInput(df, ins[i])], per)
                        IN  /\ IF fn \in LiteralFns
                               THEN out' = res /\ UNCHANGED build
                               ELSE build' = BindAll(build, OutputNames(fn, args), res)
                                    /\ UNCHANGED out
                            /\ pc' = pc + 1
                            /\ UNCHANGED <<status, err, result>>
    /\ UNCHANGED <<source, fn, args, periods, df, idx, fetches, prev>>

\* return pd.DataFrame(build), or for bollinger, sar and sarext
\* return pd.DataFrame({<input>: df[<input>].values, ..., <output>: ..., ...})
Frame ==
    /\ At("frame")
    /\ LET ins == InputCols(fn, args)
       IN  IF fn \in LiteralFns
           THEN IF \E i \in 1..Len(ins) : ~HasColumn(df, ins[i])
                THEN Raise("KeyError")
                ELSE /\ result' = DataFrame(
                            BindAll(BindAll(<<>>, ins, [i \in 1..Len(ins) |-> df[ins[i]]]),
                                    OutputNames(fn, args), out))
                     /\ status' = "returned"
                     /\ UNCHANGED <<pc, err>>
           ELSE /\ result' = DataFrame(build)
                /\ status' = "returned"
                /\ UNCHANGED <<pc, err>>
    /\ UNCHANGED <<source, fn, args, periods, df, build, out, idx, fetches,
                   primCalls, prev>>

Next ==
    \/ Call
    \/ CallAgain
    \/ Normalize
    \/ Fetch
    \/ Select
    \/ Iterate
    \/ Compute
    \/ Frame
    \/ Leave

Spec == Init /\ [][Next]_vars

-----------------------------------------------------------------------------
(* Properties *)

\* The rows of the fetched Series.
RowCount(d) == Len(d[CHOOSE c \in DOMAIN d : TRUE])

Range(sq) == {sq[i] : i \in 1..Len(sq)}

Distinct(sq) == \A i, j \in 1..Len(sq) : sq[i] = sq[j] => i = j

RECURSIVE Dedup(_)
\* sq without its repeated elements, each kept at its first place.
Dedup(sq) ==
    IF sq = <<>> THEN <<>>
    ELSE LET front == Dedup(SubSeq(sq, 1, Len(sq) - 1))
             last == sq[Len(sq)]
         IN  IF last \in Range(front) THEN front ELSE Append(front, last)

\* The periods the caller asked for, as a list.
Requested == IF args.periods.kind = "list" THEN args.periods.vals
             ELSE IF args.periods.kind = "scalar" THEN <<args.periods.val>>
             ELSE <<DefaultPeriod>>

\* The column names the specification gives a period-list indicator:
\* "{short-name}-{value}" with the indicator's own short name.
SpecNames(f, pers) == [i \in 1..Len(pers) |-> f \o "-" \o ToString(pers[i])]

\* The names the code gives them.
CodeNames(f, pers) == [i \in 1..Len(pers) |-> ColumnName(f, pers[i])]

\* The input column is not also the name of a computed column.
NoCollision ==
    /\ Range(InputCols(fn, args)) \cap Range(SpecNames(fn, Requested)) = {}
    /\ Range(InputCols(fn, args)) \cap Range(CodeNames(fn, Requested)) = {}

\* C1: a period-list indicator called with k pairwise-distinct periods returns
\* exactly the input column followed by the k columns "{short-name}-{value}",
\* short-name being the called indicator's own name, in the order requested
\* (stated for input columns that are not themselves named like an output).
C1_OwnNamedColumns ==
    (status = "returned" /\ fn \in PeriodListFns /\ Distinct(Requested) /\ NoCollision)
        => ColumnNames(result) = <<args.col>> \o SpecNames(fn, Requested)

\* C2: a call makes exactly one fetch between entry and return.
C2_OneFetch == status = "returned" => fetches = 1

\* This call repeats the preceding one, which fetched its chart, with the
\* one-element list <<p>> for `periods`.
RepeatsWith(p) ==
    /\ Finished
    /\ prev.called
    /\ prev.fn = fn
    /\ prev.args = [args EXCEPT !.periods = prev.args.periods]
    /\ args.periods = List(<<p>>)
    /\ err # "DataUnavailable"
    /\ prev.err # "DataUnavailable"

SameOutcome == status = prev.status /\ err = prev.err /\ result = prev.result

\* C3: a period-list indicator called with the bare scalar p and with the
\* list [p], all else equal, ends the same way with the same table.
C3_ScalarListEquivalent ==
    \A p \in PeriodValues :
        (RepeatsWith(p) /\ prev.args.periods = Scalar(p)) => SameOutcome

C3_Witness ==
    /\ RepeatsWith(10)
    /\ prev.args.periods = Scalar(10)
    /\ status = "returned"
    /\ Len(result) = 2

\* C4: sar and sarext on a chart without the low (or the high) column never
\* invoke the primitive and return no table; the call ends with KeyError.
C4_MissingColumn ==
    (/\ fn \in DirectionalFns
     /\ df # NoFrame
     /\ ~HasColumn(df, args.lowcol) \/ ~HasColumn(df, args.highcol))
        => /\ primCalls = <<>>
           /\ status # "returned"
           /\ result = NoTable
           /\ Finished => err = "KeyError"

C4_Witness ==
    /\ fn \in DirectionalFns
    /\ df # NoFrame
    /\ HasColumn(df, args.highcol)
    /\ ~HasColumn(df, args.lowcol)
    /\ status = "raised"
    /\ err = "KeyError"

\* C5: a primitive failure for any one period ends the whole call with that
\* failure: it is the last invocation, no table is returned although earlier
\* columns were computed; a failed fetch or a missing column ends the call
\* before any invocation; a raised call returns no table.
C5_NoPartialResult ==
    /\ \A i \in 1..Len(primCalls) :
          PrimRejects(primCalls[i].prim, primCalls[i].per)
              => /\ i = Len(primCalls)
                 /\ status = "raised"
                 /\ err = "PrimitiveFailure"
    /\ err \in {"DataUnavailable", "KeyError"} => primCalls = <<>>
    /\ status = "raised" => result = NoTable
    /\ status = "returned" => err = "none"

C5_Witness ==
    /\ fn \in PeriodListFns
    /\ args.periods = List(<<10, 1, 30>>)
    /\ status = "raised"
    /\ err = "PrimitiveFailure"
    /\ Len(primCalls) = 2
    /\ Len(build) = 2
    /\ result = NoTable

\* C6: every column of a returned table has as many rows as the fetched
\* Series.
C6_ColumnLengths ==
    status = "returned" =>
        \A i \in 1..Len(result) : Len(result[i].vals) = RowCount(df)

C6_Witness ==
    /\ status = "returned"
    /\ Len(result) >= 3
    /\ RowCount(df) = MaxRows

\* C7: a returned table holds every consumed input column under its own name
\* with the fetched values, before the computed columns, whatever the input
\* column is called.
C7_InputCarriedThrough ==
    status = "returned" =>
        LET ins == Dedup(InputCols(fn, args))
        IN  \A i \in 1..Len(ins) :
                /\ i <= Len(result)
                /\ result[i].name = ins[i]
                /\ result[i].vals = df[ins[i]]

\* The primitive and the output names the specification binds to each name.
OwnPrimitive(f) ==
    CASE f = "bollinger" -> "BBANDS"
      [] f = "dema" -> "DEMA"
      [] f = "ema" -> "EMA"
      [] f = "ht_trendline" -> "HT_TRENDLINE"
      [] f = "kama" -> "KAMA"
      [] f = "mama" -> "MAMA"
      [] f = "mavp" -> "MAVP"
      [] f = "midpoint" -> "MIDPOINT"
      [] f = "midpice" -> "MIDPRICE"
      [] f = "sar" -> "SAR"
      [] f = "sarext" -> "SAREXT"
      [] f = "sma" -> "SMA"
      [] f = "t3" -> "T3"
      [] f = "tema" -> "TEMA"
      [] f = "trima" -> "TRIMA"
      [] f = "wma" -> "WMA"

\* C8: an indicator function invokes the primitive of its own name and no
\* other.
C8_OwnPrimitive ==
    \A i \in 1..Len(primCalls) : primCalls[i].prim = OwnPrimitive(fn)

\* C9: with duplicate periods the primitive is still invoked once per list
\* element, in order; a repeated period overwrites its column, so the table
\* holds one computed column per distinct period, each with that period's
\* values.
C9_DuplicatePeriods ==
    (status = "returned" /\ fn \in PeriodListFns) =>
        /\ primCalls = [i \in 1..Len(Requested) |->
                            [prim |-> Primitive(fn), per |-> Requested[i]]]
        /\ ColumnNames(result) = Dedup(<<args.col>> \o CodeNames(fn, Requested))
        /\ \A i \in 1..Len(Requested) :
              \E j \in 1..Len(result) :
                  /\ result[j].name = ColumnName(fn, Requested[i])
                  /\ result[j].vals =
                        TA(Primitive(fn), <<AsFloat(df[args.col])>>, Requested[i])[1]

C9_Witness ==
    /\ status = "returned"
    /\ fn \in PeriodListFns
    /\ args.col = "close"
    /\ args.periods = List(<<10, 30, 10>>)
    /\ Len(primCalls) = 3
    /\ Len(result) = 3

\* C10: an empty period list succeeds without invoking the primitive and
\* returns only the input column; periods unset ends as [30] does.
C10_EmptyAndUnset ==
    /\ (/\ Finished
        /\ fn \in PeriodListFns
        /\ args.periods = List(<<>>)
        /\ err \notin {"DataUnavailable", "KeyError"})
          => /\ status = "returned"
             /\ primCalls = <<>>
             /\ result = <<[name |-> args.col, vals |-> df[args.col]]>>
    /\ (RepeatsWith(DefaultPeriod) /\ prev.args.periods = Unset) => SameOutcome

C10_Witness ==
    /\ status = "returned"
    /\ fn \in PeriodListFns
    /\ args.periods = List(<<>>)
    /\ Len(result) = 1

-----------------------------------------------------------------------------
(* Where the violated properties do hold *)

\* The names of the computed columns of the current call.
ComputedNames ==
    IF fn \in PeriodListFns THEN CodeNames(fn, Requested) ELSE OutputNames(fn, args)

\* C1 holds of the six period-list indicators other than dema and tema.
C1_ExceptDemaTema == fn \notin {"dema", "tema"} => C1_OwnNamedColumns

\* C2 holds of every indicator other than mavp, which fetches twice.
C2_ExceptMavp ==
    /\ fn # "mavp" => C2_OneFetch
    /\ (fn = "mavp" /\ status = "returned") => fetches = 2

\* C7 holds whenever no input column is named like a computed column.
C7_WhenNamesDiffer ==
    status = "returned" =>
        (Range(InputCols(fn, args)) \cap Range(ComputedNames) = {}
            => C7_InputCarriedThrough)

\* C8 holds of every indicator other than sma.
C8_ExceptSma == fn # "sma" => C8_OwnPrimitive

====
